---- MODULE Spec2Model ----
(***************************************************************************)
(* Model of the document analyser (collectors/documents/document_analyser): *)
(* requirement-driven evidence extraction (extractor.py), the evidence      *)
(* store client (evidence_store.py), the pipeline (pipeline.py) and the     *)
(* part of the command line that wraps a pipeline run (cli.py).             *)
(***************************************************************************)
EXTENDS Integers, Sequences, FiniteSets, TLC

(***************************************************************************)
(* Bounds of the model.                                                     *)
(***************************************************************************)
MaxReqs == 3
MaxDocs == 2
MaxCalls == 3

(***************************************************************************)
(* JSON / Python values.  A value is a pair <<tag, payload>>.  A string is *)
(* a sequence of text chunks, so that strings can be tested for emptiness  *)
(* and concatenated; the strings that the code inspects letter by letter   *)
(* (the verdict tokens) are spelled one character per chunk, so that       *)
(* strip() and lower() are computed.                                        *)
(***************************************************************************)
None == <<"null", "None">>
JBool(b) == <<"bool", b>>
JNum(n) == <<"num", n>>
JStr(s) == <<"str", s>>
JList(l) == <<"list", l>>
JDict(d) == <<"dict", d>>
Tag(v) == v[1]
Val(v) == v[2]

\* Python truth value of a value (what `x or y` and `if x` test).
Truthy(v) ==
    CASE Tag(v) = "null" -> FALSE
      [] Tag(v) = "bool" -> Val(v)
      [] Tag(v) = "num" -> Val(v) # 0
      [] Tag(v) = "str" -> Val(v) # <<>>
      [] Tag(v) = "list" -> Val(v) # <<>>
      [] Tag(v) = "dict" -> DOMAIN Val(v) # {}

\* Python `x or y`.
PyOr(x, y) == IF Truthy(x) THEN x ELSE y

\* dict.get(key): the value under key, None when the key is absent.
Get(d, k) == IF k \in DOMAIN Val(d) THEN Val(d)[k] ELSE None

\* str.strip() and str.lower().
Whitespace == {" ", "\t", "\n", "\r"}
UpperCase ==
    <<"A", "B", "C", "D", "E", "F", "G", "H", "I", "J", "K", "L", "M",
      "N", "O", "P", "Q", "R", "S", "T", "U", "V", "W", "X", "Y", "Z">>
LowerCase ==
    <<"a", "b", "c", "d", "e", "f", "g", "h", "i", "j", "k", "l", "m",
      "n", "o", "p", "q", "r", "s", "t", "u", "v", "w", "x", "y", "z">>

RECURSIVE lstrip(_)
lstrip(s) ==
    IF s # <<>> /\ Head(s) \in Whitespace THEN lstrip(Tail(s)) ELSE s

RECURSIVE rstrip(_)
rstrip(s) ==
    IF s # <<>> /\ s[Len(s)] \in Whitespace
    THEN rstrip(SubSeq(s, 1, Len(s) - 1))
    ELSE s

strip(s) == rstrip(lstrip(s))

lower_char(c) ==
    IF \E i \in DOMAIN UpperCase : UpperCase[i] = c
    THEN LowerCase[CHOOSE i \in DOMAIN UpperCase : UpperCase[i] = c]
    ELSE c

lower(s) == [i \in 1..Len(s) |-> lower_char(s[i])]

(***************************************************************************)
(* extractor.py: verdict coercion.                                          *)
(***************************************************************************)
TrueTokens ==
    { <<"t", "r", "u", "e">>, <<"y", "e", "s">>, <<"y">>, <<"1">>,
      <<"f", "u", "l", "f", "i", "l", "l", "e", "d">> }

FalseTokens ==
    { <<"f", "a", "l", "s", "e">>, <<"n", "o">>, <<"n">>, <<"0">>,
      <<"u", "n", "f", "u", "l", "f", "i", "l", "l", "e", "d">>,
      <<"n", "o", "t", " ", "f", "u", "l", "f", "i", "l", "l", "e", "d">> }

\* _parse_bool: a bool, or None when the value is not recognised.
_parse_bool(value) ==
    IF Tag(value) = "bool" THEN value
    ELSE IF Tag(value) = "str"
         THEN LET normalized == lower(strip(Val(value)))
              IN  IF normalized \in TrueTokens THEN JBool(TRUE)
                  ELSE IF normalized \in FalseTokens THEN JBool(FALSE)
                  ELSE None
         ELSE None

(***************************************************************************)
(* Inputs: requirement descriptors (requirements.py), documents             *)
(* (loaders.py) and the replies of the two external services.               *)
(***************************************************************************)
\* Two entries of the REQUIREMENTS table, and a descriptor that leaves
\* response_field_name at its default (None, written "").
ReqE83 ==
    [id |-> "E83", name |-> "availability of essential functions",
     resource_type |-> "genericDocument",
     response_field_name |-> "businessContinuityPolicy"]
ReqE99 ==
    [id |-> "E99", name |-> "recording and monitoring",
     resource_type |-> "data",
     response_field_name |-> "securityLoggingAndMonitoring"]
ReqPlain ==
    [id |-> "R0", name |-> "custom requirement",
     resource_type |-> "genericDocument", response_field_name |-> ""]
CatalogReqs == {ReqE83, ReqE99}
AllReqs == {ReqE83, ReqE99, ReqPlain}

\* Sequences of at most n distinct elements of S.
RECURSIVE SeqsUpTo(_, _)
SeqsUpTo(S, n) ==
    IF n = 0 THEN {<<>>}
    ELSE LET shorter == SeqsUpTo(S, n - 1)
         IN  shorter \cup
             { Append(q, x) : q \in { p \in shorter : Len(p) = n - 1 }, x \in S }

Distinct(q) == \A a, b \in DOMAIN q : a # b => q[a] # q[b]

\* Document(path): name is path.name, suffix is path.suffix.
DocCatalog ==
    <<[path |-> "docs/policy.txt", name |-> "policy.txt", suffix |-> ".txt"],
      [path |-> "report.pdf", name |-> "report.pdf", suffix |-> ".pdf"],
      [path |-> "docs/README", name |-> "README", suffix |-> ""]>>
DocsOfLen(k) == [j \in 1..k |-> DocCatalog[((j - 1) % Len(DocCatalog)) + 1]]

\* The text of a reply: <<"json", v>> is the serialisation of the JSON value
\* v, <<"text", chunks>> is text that is no JSON document.
JsonText(v) == <<"json", v>>
PlainText(chunks) == <<"text", chunks>>
EmptyText == PlainText(<<>>)

\* json.loads / response.json(): the decoded value, or JSONDecodeError.
json_loads(raw) ==
    IF raw[1] = "json"
    THEN [ok |-> TRUE, value |-> raw[2]]
    ELSE [ok |-> FALSE, value |-> None]

(***************************************************************************)
(* Replies of the language model gateway.                                   *)
(***************************************************************************)
MalformedReply == PlainText(<<"Sure! Here is the JSON: {">>)
NonObjectReply == JsonText(JList(<<JStr(<<"no evidence">>)>>))

\* Replies to a requirement prompt that asks for the verdict under `field`.
PipelineReplies(field) ==
    { MalformedReply,
      NonObjectReply,
      JsonText(JDict(<<>>)),
      JsonText(JDict([k \in {field, "snippet", "citation", "confidence"} |->
          CASE k = field -> JBool(TRUE)
            [] k = "snippet" -> JStr(<<"we keep backups">>)
            [] k = "citation" -> JStr(<<"Page 3">>)
            [] k = "confidence" -> JStr(<<"high">>)])),
      JsonText(JDict([k \in {field, "fulfilled", "statement"} |->
          CASE k = field -> JBool(FALSE)
            [] k = "fulfilled" -> JBool(TRUE)
            [] k = "statement" -> JStr(<<"nothing found">>)])) }

\* Verdict values a reply may carry under a verdict key.
VerdictValues ==
    { JBool(TRUE), JBool(FALSE), JNum(42), JNum(1), JNum(0),
      JStr(<<"Y", "e", "s">>),
      JStr(<<"N", "O", "T", " ", "F", "U", "L", "F", "I", "L", "L", "E", "D">>),
      JStr(<<" ", "t", "r", "u", "e", "\n">>),
      JStr(<<"y">>), JStr(<<"1">>),
      JStr(<<"F", "u", "l", "f", "i", "l", "l", "e", "d">>),
      JStr(<<"f", "a", "l", "s", "e">>),
      JStr(<<"\t", "N", "o">>),
      JStr(<<"n">>), JStr(<<"0">>),
      JStr(<<"u", "n", "f", "u", "l", "f", "i", "l", "l", "e", "d">>),
      JStr(<<"m", "a", "y", "b", "e">>),
      JStr(<<"n", "o", "t", "f", "u", "l", "f", "i", "l", "l", "e", "d">>),
      JStr(<<>>), JStr(<<"t", " ", "r", "u", "e">>) }

\* A reply object with the given verdict values; None leaves the key out.
VerdictObject(field, v, g) ==
    JDict([k \in (IF v # None THEN {field} ELSE {})
                 \cup (IF g # None THEN {"fulfilled"} ELSE {}) |->
           IF k = field THEN v ELSE g])

CoercionReplies(field) ==
    { MalformedReply, NonObjectReply } \cup
    { JsonText(VerdictObject(field, v, g)) :
        v \in VerdictValues \cup {None}, g \in VerdictValues \cup {None} }

(***************************************************************************)
(* State.                                                                   *)
(***************************************************************************)
VARIABLES
    entry,          \* who runs: "cli_run", "cli_test" (main) or "library" (run)
    llm,            \* the reply universe of the gateway: "pipeline", "coercion"
    requirements,   \* run(requirements=...): sequence of descriptors
    documents,      \* the loaded documents
    push,           \* run(push=...)
    publisher,      \* whether the pipeline has an EvidencePublisher
    pc,             \* position of the run
    req_pos,        \* analyse_requirements: requirements the loop has taken
    parsed,         \* analyse_requirements: local `parsed`
    evidence_items, \* analyse_requirements: local `evidence_items`
    llm_calls,      \* log of gateway calls: [req, reply]
    result,         \* run: local `result`, <<>> until extract returns
    error,          \* type of the exception that left the operation, "" if none
    payloads,       \* EvidencePublisher.push: local `payloads`
    client,         \* the EvidenceStoreClient: [state, token]
    sent,           \* send_batch: number of payloads whose send_evidence returned
    wire,           \* log of what the store client did on its connection
    run_return,     \* what run returned to its caller, <<>> if nothing (yet)
    stdout,         \* main: the document printed on standard output, <<>> if none
    exit_code,      \* main: the exit code, <<>> until main returns
    unpruned,       \* the object handed to _strip_none by a direct call, else None
    callers         \* concurrent send_evidence calls on one client: [pc, token, ...]

inputs == <<entry, llm, requirements, documents, push, publisher, unpruned>>
extraction == <<req_pos, parsed, evidence_items, llm_calls, result>>
store == <<payloads, client, sent, wire>>
output == <<stdout, exit_code>>

vars ==
    <<entry, llm, requirements, documents, push, publisher, pc, req_pos, parsed,
      evidence_items, llm_calls, result, error, payloads, client, sent, wire,
      run_return, stdout, exit_code, unpruned,
      callers>>

\* An optional value: <<>> or <<x>>.
Nothing == <<>>
Some(x) == <<x>>

RepliesFor(field) ==
    IF llm = "coercion" THEN CoercionReplies(field) ELSE PipelineReplies(field)

(***************************************************************************)
(* extractor.py: DocumentAnalyser.analyse_requirements.                     *)
(***************************************************************************)
\* field_name = getattr(requirement, "response_field_name", None) or "requirementMet"
field_name(requirement) ==
    IF requirement.response_field_name # ""
    THEN requirement.response_field_name
    ELSE "requirementMet"

\* decode_reply with the except branch leaving `parsed` as the previous
\* iteration set it.
decode_reply_stale(raw_response) ==
    IF json_loads(raw_response).ok
    THEN json_loads(raw_response).value
    ELSE parsed

\* The object the loop works on after decoding a reply: a reply that does
\* not decode counts as {}.
decode_reply(raw_response) ==
    IF json_loads(raw_response).ok
    THEN json_loads(raw_response).value
    ELSE JDict(<<>>)

\* coerce_fulfilled without the `if fulfilled is None` default.
coerce_fulfilled_no_default(obj, field) ==
    PyOr(_parse_bool(Get(obj, field)), _parse_bool(Get(obj, "fulfilled")))

\* fulfilled = _parse_bool(parsed.get(field_name)) or _parse_bool(parsed.get("fulfilled"))
\* if fulfilled is None: fulfilled = False
coerce_fulfilled(obj, field) ==
    LET fulfilled == PyOr(_parse_bool(Get(obj, field)),
                          _parse_bool(Get(obj, "fulfilled")))
    IN  IF fulfilled = None THEN JBool(FALSE) ELSE fulfilled

\* The dict appended to evidence_items.
evidence_item(requirement, obj) ==
    JDict([title |-> JStr(<<requirement.name>>),
           evidence |-> PyOr(PyOr(Get(obj, "statement"), Get(obj, "evidence")),
                             JStr(<<>>)),
           snippet |-> PyOr(Get(obj, "snippet"), JStr(<<>>)),
           citation |-> PyOr(Get(obj, "citation"), JStr(<<>>)),
           fulfilled |-> coerce_fulfilled(obj, field_name(requirement)),
           responseField |-> JStr(<<field_name(requirement)>>),
           confidence |-> PyOr(Get(obj, "confidence"), JStr(<<"low">>)),
           requirementId |-> JStr(<<requirement.id>>),
           resourceType |-> JStr(<<requirement.resource_type>>)])

\* AnalysisResult(data, raw_response, sources).
AnalysisResult(data, raw_response, sources) ==
    [data |-> data, raw_response |-> raw_response, sources |-> sources]

sources_of(docs) == [j \in DOMAIN docs |-> docs[j].path]

\* EvidenceExtractor.extract in requirement mode, after analyse_requirements
\* returned `items`.
requirement_result(items) ==
    AnalysisResult(
        JDict([document_summary |-> JStr(<<>>),
               evidence |-> JList(items),
               gaps |-> JList(<<>>)]),
        EmptyText,
        sources_of(documents))

(***************************************************************************)
(* extractor.py: DocumentAnalyser.analyse (general mode).                   *)
(***************************************************************************)
GeneralItem ==
    JDict([title |-> JStr(<<"Backups">>),
           evidence |-> JStr(<<"Backups are taken daily">>),
           snippet |-> JStr(<<"daily backups">>),
           citation |-> JStr(<<>>),
           confidence |-> JStr(<<"medium">>)])

GeneralItemCited ==
    JDict([title |-> JStr(<<"Restore tests">>),
           evidence |-> JStr(<<"Restores are tested">>),
           snippet |-> JStr(<<"restore drills each quarter">>),
           citation |-> JStr(<<"Page 2">>),
           confidence |-> JStr(<<"high">>)])

GeneralItemBare ==
    JDict([evidence |-> JStr(<<"An owner is named">>)])

GeneralReplies ==
    { MalformedReply,
      NonObjectReply,
      JsonText(JDict(<<>>)),
      JsonText(JDict([document_summary |-> JStr(<<"A policy.">>),
                      evidence |-> JList(<<GeneralItem>>),
                      gaps |-> JList(<<>>)])),
      JsonText(JDict([document_summary |-> JStr(<<"A policy.">>),
                      evidence |-> JList(<<GeneralItem, GeneralItemCited,
                                           GeneralItemBare>>),
                      gaps |-> JList(<<>>)])),
      JsonText(JDict([document_summary |-> JStr(<<"A policy.">>),
                      evidence |-> JStr(<<"none">>),
                      gaps |-> JList(<<JStr(<<"no owner named">>)>>)])) }

\* What analyse puts in `parsed` when the reply does not decode.
degraded_data ==
    JDict([document_summary |-> JStr(<<>>),
           evidence |-> JList(<<>>),
           gaps |-> JList(<<>>),
           parse_error |-> JStr(<<"Response was not valid JSON.">>)])

\* analyse after the gateway call: the decoded reply, or the degraded data
\* when it does not decode, with the reply text and the document paths.
general_result(raw_response) ==
    AnalysisResult(
        IF json_loads(raw_response).ok
        THEN json_loads(raw_response).value
        ELSE degraded_data,
        raw_response,
        sources_of(documents))

(***************************************************************************)
(* evidence_store.py: payload construction.                                 *)
(***************************************************************************)
\* EvidenceStoreConfig.from_env() defaults.
ConfigToolId == "document-analyser"
ConfigTargetId == "00000000-0000-0000-0000-000000000000"

\* str(x) of a value, as chunks.
Str(v) == IF Tag(v) = "str" THEN Val(v) ELSE <<ToString(Val(v))>>

\* A pruning test on falsiness (`not v`), which would also drop False, 0
\* and "".
IsNoneOrEmpty_falsy(v) == ~Truthy(v)

\* `v in (None, {}, [])`.
IsNoneOrEmpty(v) ==
    \/ Tag(v) = "null"
    \/ Tag(v) = "dict" /\ DOMAIN Val(v) = {}
    \/ Tag(v) = "list" /\ Len(Val(v)) = 0

\* [v for v in q if v not in (None, {}, [])]
RECURSIVE DropNoneOrEmpty(_)
DropNoneOrEmpty(q) ==
    IF q = <<>> THEN <<>>
    ELSE IF IsNoneOrEmpty(Head(q)) THEN DropNoneOrEmpty(Tail(q))
    ELSE <<Head(q)>> \o DropNoneOrEmpty(Tail(q))

RECURSIVE _strip_none(_)
_strip_none(obj) ==
    IF Tag(obj) = "dict"
    THEN JDict([k \in {x \in DOMAIN Val(obj) : ~IsNoneOrEmpty(Val(obj)[x])} |->
                _strip_none(Val(obj)[k])])
    ELSE IF Tag(obj) = "list"
    THEN JList(DropNoneOrEmpty([j \in DOMAIN Val(obj) |-> _strip_none(Val(obj)[j])]))
    ELSE obj

\* A dict literal {**base, key: value}: a later key replaces an earlier one.
WithKey(d, key, value) ==
    [k \in DOMAIN d \cup {key} |-> IF k = key THEN value ELSE d[k]]

\* path.suffix.lstrip(".")
filetype_of(doc) ==
    CASE doc.suffix = ".txt" -> "txt"
      [] doc.suffix = ".pdf" -> "pdf"
      [] OTHER -> ""

\* document_for without the wrap-around: items beyond the last document all
\* take the last document.
document_for_clamped(idx, docs) ==
    docs[IF idx < Len(docs) THEN idx + 1 ELSE Len(docs)]

\* doc = documents[idx % len(documents)], idx counted from 0.
document_for(idx, docs) == docs[(idx % Len(docs)) + 1]

\* The body built for evidence item `item` at index idx (from 0).
evidence_body(idx, item, docs) ==
    LET doc == document_for(idx, docs)
        response_field == PyOr(Get(item, "responseField"), JStr(<<"requirementMet">>))
        fulfilled == Get(item, "fulfilled")
        snippet == PyOr(PyOr(PyOr(PyOr(Get(item, "snippet"), Get(item, "citation")),
                                  Get(item, "evidence")),
                             Get(item, "statement")),
                        JStr(<<>>))
        citation == PyOr(Get(item, "citation"), JStr(<<>>))
        raw == IF Truthy(citation)
               THEN IF Truthy(snippet)
                    THEN JStr(Str(snippet) \o <<"\nCitation: ">> \o Str(citation))
                    ELSE JStr(<<"Citation: ">> \o Str(citation))
               ELSE snippet
        before == [id |-> JStr(<<ConfigToolId, ":document:", ToString(idx)>>),
                   name |-> JStr(<<doc.name>>),
                   description |-> PyOr(Get(item, "title"),
                                        JStr(<<"Document evidence">>)),
                   filetype |-> JStr(IF filetype_of(doc) = "" THEN <<>>
                                     ELSE <<filetype_of(doc)>>),
                   dataLocation |-> JDict([localDataLocation |->
                                       JDict([path |-> JStr(<<doc.path>>)])])]
        document == WithKey(WithKey(before, Str(response_field)[1], fulfilled),
                            "raw", raw)
    IN  JDict([id |-> JStr(<<"uuid4-", ToString(idx)>>),
               timestamp |-> JStr(<<"utc-now">>),
               targetOfEvaluationId |-> JStr(<<ConfigTargetId>>),
               toolId |-> JStr(<<ConfigToolId>>),
               resource |-> JDict([genericDocument |-> JDict(document)]),
               experimentalRelatedResourceIds |-> JList(<<>>)])

\* build_evidence_payloads: [error, payloads].  result.data.get and item.get
\* raise AttributeError on a value that is no dict.
build_evidence_payloads(res, docs) ==
    IF Tag(res.data) # "dict"
    THEN [error |-> "AttributeError", payloads |-> <<>>]
    ELSE LET evidence_list == PyOr(Get(res.data, "evidence"), JList(<<>>))
         IN  IF Tag(evidence_list) # "list"
             THEN [error |-> "", payloads |-> <<>>]
             ELSE IF \E j \in DOMAIN Val(evidence_list) :
                        Tag(Val(evidence_list)[j]) # "dict"
             THEN [error |-> "AttributeError", payloads |-> <<>>]
             ELSE [error |-> "",
                   payloads |->
                      [j \in DOMAIN Val(evidence_list) |->
                         _strip_none(evidence_body(j - 1, Val(evidence_list)[j], docs))]]

\* build_test_evidence_payload.
build_test_evidence_payload ==
    _strip_none(
        JDict([id |-> JStr(<<"uuid4-test">>),
               timestamp |-> JStr(<<"utc-now">>),
               targetOfEvaluationId |-> JStr(<<ConfigTargetId>>),
               toolId |-> JStr(<<ConfigToolId>>),
               resource |-> JDict([genericDocument |-> JDict(
                   [id |-> JStr(<<ConfigToolId, ":test-resource">>),
                    name |-> JStr(<<"evidence-store-ping">>),
                    description |-> JStr(<<"Connectivity test payload">>),
                    dataLocation |-> JDict([localDataLocation |->
                                        JDict([path |-> JStr(<<"N/A">>)])]),
                    raw |-> JStr(<<"ping">>)])]),
               experimentalRelatedResourceIds |-> JList(<<>>)]))

(***************************************************************************)
(* evidence_store.py: EvidenceStoreClient.                                  *)
(***************************************************************************)
\* An HTTP exchange as the client sees it: httpx raised (failed), or a
\* response with a status code and a body.
HttpFailure == [failed |-> TRUE, status |-> 0, body |-> EmptyText]
HttpResponse(status, body) == [failed |-> FALSE, status |-> status, body |-> body]

TokenResponses ==
    { HttpFailure,
      HttpResponse(401, PlainText(<<"unauthorized">>)),
      HttpResponse(400, JsonText(JDict([error |-> JStr(<<"invalid_client">>)]))),
      HttpResponse(200, JsonText(JDict([access_token |-> JStr(<<"tok-a">>)]))),
      HttpResponse(200, JsonText(JDict([access_token |-> JStr(<<"tok-b">>)]))),
      HttpResponse(200, JsonText(JDict([token_type |-> JStr(<<"bearer">>)]))),
      HttpResponse(200, JsonText(JDict([access_token |-> JStr(<<>>)]))),
      HttpResponse(200, PlainText(<<"<html>login</html>">>)) }

EvidenceResponses ==
    { HttpFailure,
      HttpResponse(401, PlainText(<<"token expired">>)),
      HttpResponse(500, PlainText(<<"boom">>)),
      HttpResponse(204, EmptyText),
      HttpResponse(200, JsonText(JDict(<<>>))),
      HttpResponse(200, PlainText(<<"OK">>)) }

\* What the client did on its connection: a request with the answer it got
\* and the exception type the client raised on it ("" if none), or the close.
NoExchange == [failed |-> FALSE, status |-> 0, body |-> EmptyText]
TokenRequest(resp, exc) ==
    [ev |-> "token_request", payload |-> None, bearer |-> None,
     resp |-> resp, error |-> exc]
Post(payload, token, resp, exc) ==
    [ev |-> "post", payload |-> payload, bearer |-> token,
     resp |-> resp, error |-> exc]
Close ==
    [ev |-> "close", payload |-> None, bearer |-> None,
     resp |-> NoExchange, error |-> ""]

\* EvidenceStoreClient(config): an open connection, no token.
new_client == [state |-> "open", token |-> None]
no_client == [state |-> "none", token |-> None]

\* _get_token that asks for a token on every call, cached or not.
_get_token_uncached(token, resp) ==
    IF ~resp.failed /\ resp.status < 400 /\ json_loads(resp.body).ok
       /\ Tag(json_loads(resp.body).value) = "dict"
       /\ Truthy(Get(json_loads(resp.body).value, "access_token"))
    THEN [events |-> <<TokenRequest(resp, "")>>, error |-> "",
          token |-> Get(json_loads(resp.body).value, "access_token"),
          cached |-> Get(json_loads(resp.body).value, "access_token")]
    ELSE [events |-> <<TokenRequest(resp, "EvidenceStoreError")>>,
          error |-> "EvidenceStoreError", token |-> None, cached |-> token]

\* _get_token on a client whose _token is `token`, when the token endpoint
\* would answer `resp`: [events, error, token (returned), cached (self._token)].
_get_token(token, resp) ==
    IF Truthy(token)
    THEN [events |-> <<>>, error |-> "", token |-> token, cached |-> token]
    ELSE LET failure(type) ==
                 [events |-> <<TokenRequest(resp, type)>>, error |-> type,
                  token |-> None, cached |-> token]
         IN  IF resp.failed THEN failure("EvidenceStoreError")
             ELSE IF resp.status >= 400 THEN failure("EvidenceStoreError")
             ELSE IF ~json_loads(resp.body).ok THEN failure("JSONDecodeError")
             ELSE IF Tag(json_loads(resp.body).value) # "dict"
             THEN failure("AttributeError")
             ELSE LET fetched == Get(json_loads(resp.body).value, "access_token")
                  IN  IF ~Truthy(fetched) THEN failure("EvidenceStoreError")
                      ELSE [events |-> <<TokenRequest(resp, "")>>, error |-> "",
                            token |-> fetched, cached |-> fetched]

\* post_evidence_with without the 204 case: every status below 400 has its
\* body decoded.
post_evidence_with_204_decoded(token, payload, resp) ==
    LET outcome(type, value) ==
            [events |-> <<Post(payload, token, resp, type)>>,
             error |-> type, value |-> value]
    IN  IF resp.failed THEN outcome("EvidenceStoreError", None)
        ELSE IF resp.status >= 400 THEN outcome("EvidenceStoreError", None)
        ELSE IF ~json_loads(resp.body).ok THEN outcome("JSONDecodeError", None)
        ELSE outcome("", json_loads(resp.body).value)

\* send_evidence after _get_token returned `token`: the POST with that token
\* and the checks of its answer: [events, error, value].
post_evidence_with(token, payload, resp) ==
    LET outcome(type, value) ==
            [events |-> <<Post(payload, token, resp, type)>>,
             error |-> type, value |-> value]
    IN  IF resp.failed THEN outcome("EvidenceStoreError", None)
        ELSE IF resp.status >= 400 THEN outcome("EvidenceStoreError", None)
        ELSE IF resp.status = 204 THEN outcome("", JDict(<<>>))
        ELSE IF ~json_loads(resp.body).ok THEN outcome("JSONDecodeError", None)
        ELSE outcome("", json_loads(resp.body).value)

\* send_evidence that goes on to the POST when _get_token raised.
send_evidence_despite_token_error(token, payload, token_resp, resp) ==
    LET got == _get_token(token, token_resp)
        failed == resp.failed \/ resp.status >= 400
    IN  [events |-> got.events \o
                    <<Post(payload, got.token, resp,
                           IF failed THEN "EvidenceStoreError" ELSE "")>>,
         error |-> IF failed THEN "EvidenceStoreError" ELSE "",
         cached |-> got.cached, value |-> None]

\* send_evidence without the status check: an error status is taken as an
\* empty result.
send_evidence_ignores_status(token, payload, token_resp, resp) ==
    LET got == _get_token(token, token_resp)
        outcome(type, value) ==
            [events |-> got.events \o <<Post(payload, got.token, resp, type)>>,
             error |-> type, cached |-> got.cached, value |-> value]
    IN  IF got.error # ""
        THEN [events |-> got.events, error |-> got.error, cached |-> got.cached,
              value |-> None]
        ELSE IF resp.failed THEN outcome("EvidenceStoreError", None)
        ELSE IF resp.status >= 400 \/ resp.status = 204 THEN outcome("", JDict(<<>>))
        ELSE IF ~json_loads(resp.body).ok THEN outcome("JSONDecodeError", None)
        ELSE outcome("", json_loads(resp.body).value)

\* send_evidence(payload) on a client whose _token is `token`:
\* [events, error, cached (self._token afterwards), value (what it returns)].
send_evidence(token, payload, token_resp, resp) ==
    LET got == _get_token(token, token_resp)
        out == post_evidence_with(got.token, payload, resp)
    IN  IF got.error # ""
        THEN [events |-> got.events, error |-> got.error, cached |-> got.cached,
              value |-> None]
        ELSE [events |-> got.events \o out.events, error |-> out.error,
              cached |-> got.cached, value |-> out.value]

\* close() / __exit__: the connection is released.
close(c) == [c EXCEPT !.state = "closed"]

\* __exit__ that closes only when the block ended without an exception.
__exit___on_success_only(c, exc) ==
    IF exc = ""
    THEN [client |-> close(c), events |-> <<Close>>]
    ELSE [client |-> c, events |-> <<>>]

\* Leaving `with EvidenceStoreClient(...) as client:` (__exit__), normally
\* (exc = "") or with an exception: [client, events].
__exit__(c, exc) == [client |-> close(c), events |-> <<Close>>]

\* A best-effort send_batch: it goes on after a failure.
batch_never_stops(exc) == FALSE

\* send_batch: whether the loop stops at a send_evidence that raised `exc`.
batch_stops(exc) == exc # ""

(***************************************************************************)
(* Initial states.                                                          *)
(***************************************************************************)
\* What is fixed before any operation has run.
Fresh ==
    /\ pc = "run"
    /\ req_pos = 0
    /\ parsed = JDict(<<>>)
    /\ evidence_items = <<>>
    /\ llm_calls = <<>>
    /\ result = Nothing
    /\ error = ""
    /\ payloads = <<>>
    /\ client = no_client
    /\ sent = 0
    /\ wire = <<>>
    /\ run_return = Nothing
    /\ stdout = Nothing
    /\ exit_code = Nothing
    /\ unpruned = None
    /\ callers = <<>>

\* main analysing documents: at least one file, requirements from the
\* catalog, a publisher exactly when pushing is on.
InitCliRun ==
    /\ entry = "cli_run"
    /\ requirements \in { q \in SeqsUpTo(CatalogReqs, MaxReqs) : q # <<>> /\ Distinct(q) }
    /\ documents \in { DocsOfLen(k) : k \in 1..MaxDocs }
    /\ push \in BOOLEAN
    /\ publisher = push

\* main --test-evidence: no documents are analysed.
InitCliTest ==
    /\ entry = "cli_test"
    /\ requirements = <<>>
    /\ documents = <<>>
    /\ push = FALSE
    /\ publisher = FALSE

\* DocumentAnalysisPipeline.run called directly.
InitLibrary ==
    /\ entry = "library"
    /\ requirements \in { q \in SeqsUpTo(AllReqs, MaxReqs) : Distinct(q) }
    /\ documents \in { DocsOfLen(k) : k \in 0..MaxDocs }
    /\ push \in BOOLEAN
    /\ publisher \in BOOLEAN

Init ==
    /\ llm = "pipeline"
    /\ InitCliRun \/ InitCliTest \/ InitLibrary
    /\ Fresh

(***************************************************************************)
(* Actions.                                                                 *)
(***************************************************************************)
\* An exception of the given type leaves run (or main's test block).
Raise(type) ==
    /\ error' = type
    /\ pc' = "raised"

\* run returns (result, pushed).
Return(res, pushed) ==
    /\ run_return' = Some([result |-> res, pushed |-> pushed])
    /\ pc' = "returned"

\* run: documents are loaded, EvidenceExtractor.extract picks the mode; both
\* analysers refuse an empty document list.
extract ==
    /\ pc = "run"
    /\ entry # "cli_test"
    /\ IF documents = <<>>
       THEN Raise("ValueError")
       ELSE /\ pc' = IF requirements # <<>> THEN "analyse_requirements" ELSE "analyse"
            /\ UNCHANGED error
    /\ UNCHANGED <<inputs, callers, extraction, store, run_return, output>>

\* prompts.py, build_messages: `SYSTEM_PROMPT.format(max_items=max_items)`
\* reads a global name that no module defines, so every call raises
\* NameError before the messages are built.
build_messages == [error |-> "NameError"]

\* analyse: the messages are built, then one gateway call, the reply decoded
\* or degraded.  The exception of build_messages leaves analyse and run.
analyse ==
    /\ pc = "analyse"
    /\ IF build_messages.error # ""
       THEN /\ Raise(build_messages.error)
            /\ UNCHANGED <<llm_calls, result>>
       ELSE /\ \E raw_response \in GeneralReplies :
                  /\ llm_calls' = Append(llm_calls, [req |-> 0, reply |-> raw_response])
                  /\ result' = Some(general_result(raw_response))
            /\ pc' = "extracted"
            /\ UNCHANGED error
    /\ UNCHANGED <<inputs, callers, req_pos, parsed, evidence_items, store,
                   run_return, output>>

\* analyse_requirements: one iteration of the loop; after the last one
\* extract wraps the items in an AnalysisResult.
analyse_requirement ==
    /\ pc = "analyse_requirements"
    /\ LET requirement == requirements[req_pos + 1]
       IN  \E raw_response \in RepliesFor(field_name(requirement)) :
              LET obj == decode_reply(raw_response)
              IN  /\ req_pos' = req_pos + 1
                  /\ llm_calls' = Append(llm_calls,
                                         [req |-> req_pos + 1, reply |-> raw_response])
                  /\ parsed' = obj
                  /\ IF Tag(obj) # "dict"
                     THEN /\ Raise("AttributeError")
                          /\ UNCHANGED <<evidence_items, result>>
                     ELSE /\ evidence_items' =
                                Append(evidence_items, evidence_item(requirement, obj))
                          /\ UNCHANGED error
                          /\ IF req_pos + 1 = Len(requirements)
                             THEN /\ result' = Some(requirement_result(evidence_items'))
                                  /\ pc' = "extracted"
                             ELSE UNCHANGED <<result, pc>>
    /\ UNCHANGED <<inputs, callers, store, run_return, output>>

\* run after extract: EvidencePublisher.push up to the opening of the
\* client, or the return without a push.
publish ==
    /\ pc = "extracted"
    /\ IF push /\ publisher
       THEN LET built == build_evidence_payloads(result[1], documents)
            IN  IF built.error # ""
                THEN /\ Raise(built.error)
                     /\ UNCHANGED <<store, run_return>>
                ELSE IF built.payloads = <<>>
                THEN /\ Return(result[1], 0)
                     /\ UNCHANGED <<store, error>>
                ELSE /\ payloads' = built.payloads
                     /\ client' = new_client
                     /\ pc' = "send_batch"
                     /\ UNCHANGED <<sent, wire, error, run_return>>
       ELSE /\ Return(result[1], 0)
            /\ UNCHANGED <<store, error>>
    /\ UNCHANGED <<inputs, callers, extraction, output>>

\* send_batch: one iteration of the loop.  An exception leaves the loop and
\* the with block; after the last payload push returns len(payloads).
send_batch ==
    /\ pc = "send_batch"
    /\ \E token_resp \in TokenResponses, resp \in EvidenceResponses :
          LET out == send_evidence(client.token, payloads[sent + 1], token_resp, resp)
              authed == [client EXCEPT !.token = out.cached]
              last == sent + 1 = Len(payloads)
              left == __exit__(authed, out.error)
          IN  IF batch_stops(out.error)
              THEN /\ client' = left.client
                   /\ wire' = wire \o out.events \o left.events
                   /\ Raise(out.error)
                   /\ UNCHANGED <<sent, run_return>>
              ELSE /\ sent' = sent + 1
                   /\ UNCHANGED error
                   /\ IF last
                      THEN /\ client' = left.client
                           /\ wire' = wire \o out.events \o left.events
                           /\ Return(result[1], Len(payloads))
                      ELSE /\ client' = authed
                           /\ wire' = wire \o out.events
                           /\ UNCHANGED <<pc, run_return>>
    /\ UNCHANGED <<inputs, callers, extraction, payloads, output>>

\* main --test-evidence: one payload sent on a client of its own.
test_evidence ==
    /\ pc = "run"
    /\ entry = "cli_test"
    /\ \E token_resp \in TokenResponses, resp \in EvidenceResponses :
          LET payload == build_test_evidence_payload
              out == send_evidence(new_client.token, payload, token_resp, resp)
              left == __exit__([new_client EXCEPT !.token = out.cached], out.error)
          IN  /\ payloads' = <<payload>>
              /\ client' = left.client
              /\ wire' = wire \o out.events \o left.events
              /\ sent' = IF out.error = "" THEN 1 ELSE 0
              /\ error' = out.error
              /\ exit_code' = Some(IF out.error = "" THEN 0 ELSE 1)
    /\ pc' = "exit"
    /\ UNCHANGED <<inputs, callers, extraction, run_return, stdout>>

\* main after pipeline.run: the result is printed when run returned; any
\* exception is reported on stderr and the exit code is 1.
main_report ==
    /\ entry = "cli_run"
    /\ pc \in {"returned", "raised"}
    /\ IF pc = "returned"
       THEN /\ stdout' = Some(run_return[1].result)
            /\ exit_code' = Some(0)
       ELSE /\ UNCHANGED stdout
            /\ exit_code' = Some(1)
    /\ pc' = "exit"
    /\ UNCHANGED <<inputs, callers, extraction, store, error, run_return>>

Next ==
    \/ extract
    \/ analyse
    \/ analyse_requirement
    \/ publish
    \/ send_batch
    \/ test_evidence
    \/ main_report

Spec == Init /\ [][Next]_vars

(***************************************************************************)
(* Verdict coercion on its own: one requirement, one document, no push,    *)
(* and a gateway that may put any of VerdictValues under the verdict keys. *)
(***************************************************************************)
InitCoerce ==
    /\ llm = "coercion"
    /\ entry = "library"
    /\ requirements \in { <<r>> : r \in AllReqs }
    /\ documents = DocsOfLen(1)
    /\ push = FALSE
    /\ publisher = FALSE
    /\ Fresh

NextCoerce ==
    \/ extract
    \/ analyse_requirement
    \/ publish

SpecCoerce == InitCoerce /\ [][NextCoerce]_vars

(***************************************************************************)
(* The store client on its own: a caller that holds one                     *)
(* EvidenceStoreClient, calls send_evidence on it up to MaxCalls times,     *)
(* catching what it raises, and closes it.                                  *)
(***************************************************************************)
ClientTokenResponses ==
    { HttpFailure,
      HttpResponse(401, PlainText(<<"unauthorized">>)),
      HttpResponse(200, JsonText(JDict([access_token |-> JStr(<<"tok-a">>)]))),
      HttpResponse(200, JsonText(JDict([access_token |-> JStr(<<"tok-b">>)]))),
      HttpResponse(200, JsonText(JDict([token_type |-> JStr(<<"bearer">>)]))) }

ClientEvidenceResponses ==
    { HttpResponse(401, PlainText(<<"token expired">>)),
      HttpResponse(204, EmptyText),
      HttpResponse(200, JsonText(JDict([id |-> JStr(<<"stored">>)]))) }

InitClient ==
    /\ llm = "pipeline"
    /\ entry = "client"
    /\ requirements = <<>>
    /\ documents = <<>>
    /\ push = FALSE
    /\ publisher = FALSE
    /\ pc = "client"
    /\ req_pos = 0
    /\ parsed = JDict(<<>>)
    /\ evidence_items = <<>>
    /\ llm_calls = <<>>
    /\ result = Nothing
    /\ error = ""
    /\ payloads = <<>>
    /\ client = new_client
    /\ sent = 0
    /\ wire = <<>>
    /\ run_return = Nothing
    /\ stdout = Nothing
    /\ exit_code = Nothing
    /\ unpruned = None
    /\ callers = <<>>

\* One send_evidence call; `error` is what this call raised.
client_send_evidence ==
    /\ pc = "client"
    /\ client.state = "open"
    /\ Len(payloads) < MaxCalls
    /\ \E token_resp \in ClientTokenResponses, resp \in ClientEvidenceResponses :
          LET payload == build_test_evidence_payload
              out == send_evidence(client.token, payload, token_resp, resp)
          IN  /\ payloads' = Append(payloads, payload)
              /\ client' = [client EXCEPT !.token = out.cached]
              /\ wire' = wire \o out.events
              /\ sent' = IF out.error = "" THEN sent + 1 ELSE sent
              /\ error' = out.error
    /\ UNCHANGED <<inputs, callers, pc, extraction, run_return, output>>

\* close().
client_close ==
    /\ pc = "client"
    /\ client.state = "open"
    /\ client' = close(client)
    /\ wire' = Append(wire, Close)
    /\ pc' = "exit"
    /\ UNCHANGED <<inputs, callers, extraction, error, payloads, sent, run_return, output>>

NextClient ==
    \/ client_send_evidence
    \/ client_close

SpecClient == InitClient /\ [][NextClient]_vars

(***************************************************************************)
(* Properties.                                                              *)
(***************************************************************************)
\* The reply the gateway gave to the k-th call, and whether it decodes.
ReplyAt(k) == llm_calls[k].reply
Decodes(raw) == json_loads(raw).ok
ReplyObject(raw) == IF Decodes(raw) THEN json_loads(raw).value ELSE JDict(<<>>)

RequirementMode == entry # "cli_test" /\ requirements # <<>> /\ documents # <<>>
RunOver == pc \in {"returned", "raised", "exit"}

\* The publish step of this run failed with the store's error.
PublishFailed ==
    /\ entry # "cli_test"
    /\ push /\ publisher
    /\ result # Nothing
    /\ RunOver
    /\ error = "EvidenceStoreError"

\* C1: when extraction completed and the publish step then fails with a
\* store error, run still returns the extraction output to its caller, and
\* main still prints it.
C1_ExtractionOutputSurvivesPublishFailure ==
    PublishFailed =>
        /\ run_return # Nothing
        /\ run_return[1].result = result[1]
        /\ (pc = "exit" => stdout = Some(result[1]))

\* C2 reference: parse(v) and the verdict built from it.
RefParse(v) ==
    IF Tag(v) = "bool" THEN v
    ELSE IF Tag(v) = "str" /\ lower(strip(Val(v))) \in TrueTokens THEN JBool(TRUE)
    ELSE IF Tag(v) = "str" /\ lower(strip(Val(v))) \in FalseTokens THEN JBool(FALSE)
    ELSE None

RefFulfilled(obj, field) ==
    IF RefParse(Get(obj, field)) # None THEN RefParse(Get(obj, field))
    ELSE IF RefParse(Get(obj, "fulfilled")) # None THEN RefParse(Get(obj, "fulfilled"))
    ELSE JBool(FALSE)

\* C2: the verdict of every item equals the reference: the configured field
\* when it is recognised (true or false), else the generic `fulfilled` field
\* when that is recognised, else false.
C2_VerdictCoercionMatchesReference ==
    \A k \in DOMAIN evidence_items :
        Tag(ReplyObject(ReplyAt(k))) = "dict" =>
            Get(evidence_items[k], "fulfilled") =
                RefFulfilled(ReplyObject(ReplyAt(k)), field_name(requirements[k]))

\* Neither verdict key of the reply holds a recognised verdict.
NoVerdict(raw, field) ==
    \/ ~Decodes(raw)
    \/ /\ RefParse(Get(ReplyObject(raw), field)) = None
       /\ RefParse(Get(ReplyObject(raw), "fulfilled")) = None

\* C3: every evidence item produced has a boolean `fulfilled`; it is false
\* when the reply does not decode or carries no recognised verdict.
C3_FulfilledIsBoolean ==
    /\ \A k \in DOMAIN evidence_items :
          /\ Tag(Get(evidence_items[k], "fulfilled")) = "bool"
          /\ NoVerdict(ReplyAt(k), field_name(requirements[k])) =>
                 Get(evidence_items[k], "fulfilled") = JBool(FALSE)
    /\ (RequirementMode /\ result # Nothing) =>
          Get(result[1].data, "evidence") = JList(evidence_items)

C3_Witness ==
    /\ result # Nothing
    /\ \E k \in DOMAIN evidence_items :
          /\ ReplyAt(k) = MalformedReply
          /\ Get(evidence_items[k], "fulfilled") = JBool(FALSE)

\* C4: a reply that does not decode is handled as {} without an error, and
\* every item is the one its own requirement and its own reply determine,
\* whatever the replies to the other requirements were.
C4_PerRequirementIsolation ==
    /\ \A k \in DOMAIN evidence_items :
          evidence_items[k] = evidence_item(requirements[k], ReplyObject(ReplyAt(k)))
    /\ \A k \in DOMAIN llm_calls :
          (RequirementMode /\ ~Decodes(ReplyAt(k))) =>
              /\ k \in DOMAIN evidence_items
              /\ evidence_items[k] = evidence_item(requirements[k], JDict(<<>>))

C4_Witness ==
    /\ result # Nothing
    /\ \E j, k \in DOMAIN evidence_items :
          /\ j < k
          /\ Get(evidence_items[j], "fulfilled") = JBool(TRUE)
          /\ ~Decodes(ReplyAt(k))
          /\ Get(evidence_items[k], "snippet") = JStr(<<>>)

\* C5: in requirement mode the extraction ends with exactly one item per
\* requirement, the k-th carrying the id, title and response field of the
\* k-th requirement, whatever the gateway replied.
C5_OneItemPerRequirementInOrder ==
    (RequirementMode /\ pc \notin {"run", "analyse_requirements"}) =>
        /\ Len(evidence_items) = Len(requirements)
        /\ \A k \in DOMAIN evidence_items :
              /\ Get(evidence_items[k], "requirementId") = JStr(<<requirements[k].id>>)
              /\ Get(evidence_items[k], "title") = JStr(<<requirements[k].name>>)
              /\ Get(evidence_items[k], "responseField") =
                     JStr(<<field_name(requirements[k])>>)

\* The evidence POSTs of the log, in the order they were made.
IsPost(e) == e.ev = "post"
Posts == SelectSeq(wire, IsPost)
IsTokenRequest(e) == e.ev = "token_request"
IsClose(e) == e.ev = "close"
TokenRequests == SelectSeq(wire, IsTokenRequest)
Closes == SelectSeq(wire, IsClose)

\* C6: a batch POSTs its payloads one at a time in input order; the first
\* submission that fails ends it: the error reaches the caller, nothing is
\* sent after it, and the payloads before it were each POSTed once and
\* accepted.
C6_BatchOrderedFailFast ==
    /\ Len(Posts) <= Len(payloads)
    /\ \A k \in DOMAIN Posts : Posts[k].payload = payloads[k]
    /\ \A j, k \in DOMAIN payloads : j # k => payloads[j] # payloads[k]
    /\ sent <= Len(Posts) /\ Len(Posts) <= sent + 1
    /\ \A k \in DOMAIN Posts : k <= sent => Posts[k].error = ""
    /\ \A j \in DOMAIN wire :
          wire[j].error # "" =>
              /\ \A m \in DOMAIN wire : m > j => IsClose(wire[m])
              /\ RunOver
              /\ error = wire[j].error
              /\ run_return = Nothing

C6_Witness ==
    /\ Len(payloads) = 3
    /\ Len(Posts) = 2
    /\ Posts[1].error = ""
    /\ Posts[2].error = "EvidenceStoreError"
    /\ pc = "raised"

\* The token answers the claim lists: transport failure, a status of 400 or
\* more, or a decoded answer without an access token.
TokenRefused(resp) ==
    \/ resp.failed
    \/ resp.status >= 400
    \/ /\ Decodes(resp.body)
       /\ Tag(json_loads(resp.body).value) = "dict"
       /\ ~Truthy(Get(json_loads(resp.body).value, "access_token"))

C8_TokenCachedForLifetime ==
    /\ payloads = <<>> => Len(TokenRequests) = 0
    /\ \A j \in DOMAIN wire :
          (IsTokenRequest(wire[j]) /\ wire[j].error = "") =>
              LET granted == Get(json_loads(wire[j].resp.body).value, "access_token")
              IN  /\ \A m \in DOMAIN wire : m > j => ~IsTokenRequest(wire[m])
                  /\ \A m \in DOMAIN wire :
                        (m > j /\ IsPost(wire[m])) => wire[m].bearer = granted
                  /\ client.token = granted

C8_Witness ==
    /\ Len(Posts) = 3
    /\ Posts[1].resp.status = 204
    /\ Posts[2].resp.status = 401
    /\ Posts[3].bearer = Posts[1].bearer
    /\ Len(TokenRequests) = 1

\* The three states of a client, in the order it goes through them.
Phase(c) ==
    CASE c.state = "none" -> 0
      [] c.state = "open" /\ ~Truthy(c.token) -> 1
      [] c.state = "open" /\ Truthy(c.token) -> 2
      [] c.state = "closed" -> 3

C9_ClosedOnceWhenOver ==
    /\ Len(Closes) <= 1
    /\ client.state = "closed" <=> Len(Closes) = 1
    /\ Len(Closes) = 1 => IsClose(wire[Len(wire)])
    /\ client.state = "open" => pc = "send_batch"
    /\ (RunOver /\ client.state # "none") => client.state = "closed"

C9_OnlyForward == Phase(client') >= Phase(client)

\* C9: the client that push or the connectivity test opens is closed exactly
\* once by the time the operation returns or raises, nothing is requested
\* on it after the close, and its state never moves backwards.
C9_ClientClosedExactlyOnce == []C9_ClosedOnceWhenOver /\ [][C9_OnlyForward]_vars

C9_Witness ==
    /\ pc = "raised"
    /\ client.state = "closed"
    /\ Len(Posts) = 2
    /\ Posts[2].error = "EvidenceStoreError"
    /\ IsClose(wire[Len(wire)])

\* C10: by the end of a run the gateway was called exactly once for every
\* requirement (once in general mode), the token endpoint at most once and
\* every payload POSTed at most once.
C10_EveryCallExactlyOnce ==
    (RunOver /\ entry \in {"cli_run", "library"} /\ documents # <<>>) =>
        /\ requirements # <<>> =>
              \A k \in DOMAIN requirements :
                  Cardinality({c \in DOMAIN llm_calls : llm_calls[c].req = k}) = 1
        /\ requirements = <<>> => Len(llm_calls) = 1
        /\ Len(TokenRequests) <= 1
        /\ \A k \in DOMAIN payloads :
              Cardinality({m \in DOMAIN Posts : Posts[m].payload = payloads[k]}) <= 1

(***************************************************************************)
(* requirements.py: the catalog, and main run for one entry of it          *)
(* (--test-requirement KEY), without a push.                                *)
(***************************************************************************)
RequirementPrompt(id, name, resource_type, response_field_name) ==
    [id |-> id, name |-> name, resource_type |-> resource_type,
     response_field_name |-> response_field_name]

\* The REQUIREMENTS table: key |-> descriptor (names shortened; entries that
\* share a name in the table share it here).
REQUIREMENTS ==
    [key \in { "X.1.1.9.1", "X.1.1.9.2", "X.1.1.8", "X.1.1.7", "X.1.1.6",
               "X.1.1.5", "X.1.1.4", "X.1.1.3", "X.1.1.2.1", "X.1.1.2.2",
               "X.1.1.1", "X.1.1.10", "X.1.1.11", "X.1.1.12.1", "X.1.1.12.2",
               "X.1.1.12.3", "X.1.1.13", "X.1.1.14", "X.1.1.14.2" } |->
     CASE key = "X.1.1.9.1" -> ReqE83
       [] key = "X.1.1.9.2" ->
            RequirementPrompt("E81", "availability of essential functions",
                              "genericDocument", "availabilityProtection")
       [] key = "X.1.1.8" ->
            RequirementPrompt("E79", "data minimisation",
                              "genericDocument", "dataMinimizationPolicy")
       [] key = "X.1.1.7" ->
            RequirementPrompt("E63", "integrity of data",
                              "genericDocument", "integrityProtection")
       [] key = "X.1.1.6" ->
            RequirementPrompt("E63", "confidentiality of data",
                              "genericDocument", "confidentialityProtection")
       [] key = "X.1.1.5" ->
            RequirementPrompt("E67", "authorised access only",
                              "genericDocument", "accessControlMechanisms")
       [] key = "X.1.1.4" ->
            RequirementPrompt("E61", "security updates",
                              "genericDocument", "securityUpdateMechanisms")
       [] key = "X.1.1.3" ->
            RequirementPrompt("E55", "secure by default configuration",
                              "genericDocument", "secureByDefaultConfiguration")
       [] key = "X.1.1.2.1" ->
            RequirementPrompt("E51", "no known exploitable vulnerabilities",
                              "genericDocument", "securityTestingPolicies")
       [] key = "X.1.1.2.2" ->
            RequirementPrompt("E52", "no known exploitable vulnerabilities",
                              "genericDocument", "penetrationTestingResults")
       [] key = "X.1.1.1" ->
            RequirementPrompt("E45", "appropriate level of cybersecurity",
                              "genericDocument", "cybersecurityRiskManagement")
       [] key = "X.1.1.10" ->
            RequirementPrompt("E87", "minimise negative impact",
                              "genericDocument", "impactMinimizationMeasures")
       [] key = "X.1.1.11" ->
            RequirementPrompt("E3", "limit attack surfaces",
                              "genericDocument", "securityBaseline")
       [] key = "X.1.1.12.1" ->
            RequirementPrompt("E93", "reduce the impact of an incident",
                              "genericDocument", "dataBackups")
       [] key = "X.1.1.12.2" ->
            RequirementPrompt("E91", "reduce the impact of an incident",
                              "genericDocument", "dataLeakagePrevention")
       [] key = "X.1.1.12.3" ->
            RequirementPrompt("E92", "reduce the impact of an incident",
                              "genericDocument", "segregationOfDuties")
       [] key = "X.1.1.13" -> ReqE99
       [] key = "X.1.1.14" ->
            RequirementPrompt("E101", "secure removal of data",
                              "genericDocument", "secureDataRemoval")
       [] key = "X.1.1.14.2" ->
            RequirementPrompt("E102", "secure removal of data",
                              "genericDocument", "secureDataTransfer")]

\* get_requirement(requirement_id): REQUIREMENTS.get.
get_requirement(requirement_id) == REQUIREMENTS[requirement_id]

\* main --test-requirement KEY FILE: requirements = [get_requirement(KEY)].
InitCatalog ==
    /\ llm = "pipeline"
    /\ entry = "cli_run"
    /\ requirements \in { <<get_requirement(key)>> : key \in DOMAIN REQUIREMENTS }
    /\ documents \in { DocsOfLen(k) : k \in 1..MaxDocs }
    /\ push = FALSE
    /\ publisher = FALSE
    /\ Fresh

NextCatalog ==
    \/ extract
    \/ analyse_requirement
    \/ publish
    \/ main_report

SpecCatalog == InitCatalog /\ [][NextCatalog]_vars

\* The catalog entries whose descriptor has the given id.
EntriesWithId(id) == { key \in DOMAIN REQUIREMENTS : REQUIREMENTS[key].id = id }

\* C11: no two entries of the REQUIREMENTS table have the same id: the
\* requirementId of every evidence item produced for an entry of the table
\* is the id of exactly one entry.
C11_CatalogIdsUnique ==
    \A k \in DOMAIN evidence_items :
        Cardinality(EntriesWithId(Str(Get(evidence_items[k], "requirementId"))[1])) = 1

(***************************************************************************)
(* Properties of the payloads that push built from the extraction result.  *)
(***************************************************************************)
\* push built `payloads` from result.data["evidence"] in this run.
PayloadsBuilt == entry \in {"cli_run", "library"} /\ payloads # <<>>

\* The evidence item payload k was built from, and the object under the
\* (single) key of the payload's `resource`.
ItemOf(k) == Val(Get(result[1].data, "evidence"))[k]
ResourceKeys(p) == DOMAIN Val(Get(p, "resource"))
ResourceObject(p) ==
    Val(Get(p, "resource"))[CHOOSE key \in ResourceKeys(p) : TRUE]

\* The merge rule over an item's own snippet and citation.
RefRaw(item) ==
    LET snippet == Get(item, "snippet")
        citation == Get(item, "citation")
    IN  IF Truthy(snippet) /\ ~Truthy(citation) THEN snippet
        ELSE IF ~Truthy(snippet) /\ Truthy(citation)
        THEN JStr(<<"Citation: ">> \o Str(citation))
        ELSE IF Truthy(snippet) /\ Truthy(citation)
        THEN JStr(Str(snippet) \o <<"\nCitation: ">> \o Str(citation))
        ELSE JStr(<<>>)

\* C12: the `raw` of every payload follows the merge rule over its item's
\* snippet and citation: snippet alone, "Citation: <citation>" alone, both
\* joined by a newline, or the empty string when the item has neither.
C12_RawFollowsMergeRule ==
    PayloadsBuilt =>
        \A k \in DOMAIN payloads :
            Get(ResourceObject(payloads[k]), "raw") = RefRaw(ItemOf(k))

(***************************************************************************)
(* evidence_store.py: _strip_none called on its own, on nested values of   *)
(* depth up to MaxDepth and on evidence bodies.                             *)
(***************************************************************************)
MaxDepth == 2

PruneLeaves ==
    { None, JStr(<<>>), JStr(<<"Page 3">>), JBool(FALSE), JNum(0),
      JDict(<<>>), JList(<<>>) }

\* Values nested up to `depth` levels: a leaf, a mapping with one key or a
\* sequence with one element.
RECURSIVE PruneValues(_)
PruneValues(depth) ==
    IF depth = 0 THEN PruneLeaves
    ELSE LET inner == PruneValues(depth - 1)
         IN  inner \cup { JDict([k \in {"resource"} |-> v]) : v \in inner }
                   \cup { JList(<<v>>) : v \in inner }

\* Evidence bodies with a citation and a gaps list, empty or not.
PruneBodies ==
    { JDict([title |-> JStr(<<"Backups">>), citation |-> c, gaps |-> g]) :
        c \in { JStr(<<>>), JStr(<<"Page 3">>), None },
        g \in { JList(<<>>), JList(<<JStr(<<"no owner named">>)>>) } }

InitPrune ==
    /\ llm = "pipeline"
    /\ entry = "prune"
    /\ requirements = <<>>
    /\ documents = <<>>
    /\ push = FALSE
    /\ publisher = FALSE
    /\ unpruned \in PruneValues(MaxDepth) \cup PruneBodies
    /\ callers = <<>>
    /\ pc = "strip_none"
    /\ req_pos = 0
    /\ parsed = JDict(<<>>)
    /\ evidence_items = <<>>
    /\ llm_calls = <<>>
    /\ result = Nothing
    /\ error = ""
    /\ payloads = <<>>
    /\ client = no_client
    /\ sent = 0
    /\ wire = <<>>
    /\ run_return = Nothing
    /\ stdout = Nothing
    /\ exit_code = Nothing

\* payload = _strip_none(unpruned)
strip_none ==
    /\ pc = "strip_none"
    /\ payloads' = <<_strip_none(unpruned)>>
    /\ pc' = "exit"
    /\ UNCHANGED <<inputs, callers, extraction, error, client, sent, wire, run_return, output>>

NextPrune == strip_none

SpecPrune == InitPrune /\ [][NextPrune]_vars

\* No key at any depth of v has a null, an empty mapping or an empty
\* sequence as its value.
RECURSIVE NoEmptyValue(_)
NoEmptyValue(v) ==
    CASE Tag(v) = "dict" ->
            \A k \in DOMAIN Val(v) :
                ~IsNoneOrEmpty(Val(v)[k]) /\ NoEmptyValue(Val(v)[k])
      [] Tag(v) = "list" -> \A j \in DOMAIN Val(v) : NoEmptyValue(Val(v)[j])
      [] OTHER -> TRUE

\* C13: what the pruning step returns contains no key, at any depth, whose
\* value is null, an empty mapping or an empty sequence, also when the value
\* became empty only because its own children were pruned.
C13_PruningRecursiveAndComplete ==
    \A k \in DOMAIN payloads : NoEmptyValue(payloads[k])

\* C14: the `resource` of every payload built from a requirement's item has
\* exactly one key, the item's resourceType, and the object under it holds
\* the item's verdict under the key named by the item's responseField.
C14_ResourceKeyedByKind ==
    (PayloadsBuilt /\ RequirementMode) =>
        \A k \in DOMAIN payloads :
            /\ ResourceKeys(payloads[k]) = { Str(Get(ItemOf(k), "resourceType"))[1] }
            /\ Get(ResourceObject(payloads[k]), Str(Get(ItemOf(k), "responseField"))[1])
                   = Get(ItemOf(k), "fulfilled")

\* C15: one payload per evidence item, in item order, and payload i (from
\* 0) takes its name, filetype and data-location path from
\* documents[i mod d], d the number of documents.
C15_DocumentWrapAround ==
    PayloadsBuilt =>
        /\ Len(payloads) = Len(Val(Get(result[1].data, "evidence")))
        /\ \A k \in DOMAIN payloads :
              LET doc == documents[((k - 1) % Len(documents)) + 1]
                  res == ResourceObject(payloads[k])
              IN  /\ Get(res, "id") = JStr(<<ConfigToolId, ":document:", ToString(k - 1)>>)
                  /\ Get(res, "description") =
                         PyOr(Get(ItemOf(k), "title"), JStr(<<"Document evidence">>))
                  /\ Get(res, "name") = JStr(<<doc.name>>)
                  /\ Str(Get(res, "filetype")) =
                         (IF doc.suffix = "" THEN <<>> ELSE <<filetype_of(doc)>>)
                  /\ Get(Get(Get(res, "dataLocation"), "localDataLocation"), "path")
                         = JStr(<<doc.path>>)

C15_Witness ==
    /\ PayloadsBuilt
    /\ Len(payloads) = 3
    /\ Len(documents) = 2
    /\ Get(ResourceObject(payloads[1]), "name") = JStr(<<documents[1].name>>)
    /\ Get(ResourceObject(payloads[2]), "name") = JStr(<<documents[2].name>>)
    /\ Get(ResourceObject(payloads[3]), "name") = JStr(<<documents[1].name>>)
    /\ documents[1] # documents[2]

\* A general-mode run (no requirements) over loaded documents, after
\* analyse was called.
GeneralModeAnalysed ==
    /\ entry = "library"
    /\ requirements = <<>>
    /\ documents # <<>>
    /\ pc \notin {"run", "analyse"}

\* C16: in general mode analyse does not raise: it returns a result (for a
\* reply that does not decode: empty evidence and gaps, a parse-error
\* marker, the reply text unchanged, the document paths in input order),
\* and with push enabled the run then returns a published count of 0
\* without a store request.
C16_GeneralModeDegradesOnBadReply ==
    GeneralModeAnalysed =>
        /\ error = ""
        /\ result # Nothing
        /\ Len(llm_calls) = 1
        /\ result[1].raw_response = ReplyAt(1)
        /\ result[1].sources = [j \in DOMAIN documents |-> documents[j].path]
        /\ ~Decodes(ReplyAt(1)) =>
               /\ Get(result[1].data, "evidence") = JList(<<>>)
               /\ Get(result[1].data, "gaps") = JList(<<>>)
               /\ "parse_error" \in DOMAIN Val(result[1].data)
               /\ wire = <<>> /\ client = no_client /\ payloads = <<>>
               /\ pc = "returned" =>
                      run_return = Some([result |-> result[1], pushed |-> 0])

\* The store accepted the POST: it answered, with a status below 400, and
\* send_evidence returned.
Accepted(post) == ~post.resp.failed /\ post.resp.status < 400 /\ post.error = ""

\* C17: the count run returns is the number of payloads the store accepted
\* in the run: 0, with an empty request log, when push is off, there is no
\* publisher or no payload was built; else the number of payloads built,
\* returned only after each of them was POSTed and accepted.
C17_CountIsAcceptedPayloads ==
    (pc = "returned" /\ entry \in {"cli_run", "library"}) =>
        LET pushed == run_return[1].pushed
        IN  /\ pushed = Len(SelectSeq(Posts, Accepted))
            /\ pushed = sent
            /\ (~push \/ ~publisher \/ payloads = <<>>) =>
                   /\ pushed = 0
                   /\ wire = <<>>
            /\ (push /\ publisher /\ payloads # <<>>) =>
                   /\ pushed = Len(payloads)
                   /\ Len(Posts) = Len(payloads)
                   /\ \A k \in DOMAIN Posts :
                         Posts[k].payload = payloads[k] /\ Accepted(Posts[k])
                   /\ Len(TokenRequests) = 1

C17_Witness ==
    /\ pc = "returned"
    /\ entry = "library"
    /\ run_return[1].pushed = 3
    /\ Len(Posts) = 3
    /\ Posts[2].resp.status = 204
    /\ Posts[3].resp.status = 200

(***************************************************************************)
(* evidence_store.py: MaxCallers threads call send_evidence at the same    *)
(* time on one shared client that has no cached token.  A thread may be    *)
(* preempted between any two statements: after the test of self._token,    *)
(* after the token request returned, and after self._token was assigned.   *)
(***************************************************************************)
MaxCallers == 2

\* A call that has not started: nothing fetched, nothing raised, no answer
\* of the evidence endpoint and no value returned.
new_caller ==
    [pc |-> "_get_token", token |-> None, requests |-> 0, error |-> "",
     answer |-> NoExchange, value |-> None]

InitConcurrent ==
    /\ llm = "pipeline"
    /\ entry = "concurrent"
    /\ requirements = <<>>
    /\ documents = <<>>
    /\ push = FALSE
    /\ publisher = FALSE
    /\ unpruned = None
    /\ callers = [t \in 1..MaxCallers |-> new_caller]
    /\ pc = "client"
    /\ req_pos = 0
    /\ parsed = JDict(<<>>)
    /\ evidence_items = <<>>
    /\ llm_calls = <<>>
    /\ result = Nothing
    /\ error = ""
    /\ payloads = [t \in 1..MaxCallers |-> build_test_evidence_payload]
    /\ client = new_client
    /\ sent = 0
    /\ wire = <<>>
    /\ run_return = Nothing
    /\ stdout = Nothing
    /\ exit_code = Nothing

\* check_token that returns self._token whether or not it is set.
check_token_skips_request(t) ==
    /\ callers[t].pc = "_get_token"
    /\ callers' = [callers EXCEPT ![t] =
          [@ EXCEPT !.pc = "post", !.token = client.token]]
    /\ UNCHANGED <<inputs, pc, extraction, error, store, run_return, output>>

\* _get_token, `if self._token: return self._token`.
check_token(t) ==
    /\ callers[t].pc = "_get_token"
    /\ callers' = [callers EXCEPT ![t] =
          IF Truthy(client.token)
          THEN [@ EXCEPT !.pc = "post", !.token = client.token]
          ELSE [@ EXCEPT !.pc = "request_token"]]
    /\ UNCHANGED <<inputs, pc, extraction, error, store, run_return, output>>

\* _get_token, the token request and the checks of its answer, by a thread
\* that found no cached token.
request_token(t) ==
    /\ callers[t].pc = "request_token"
    /\ \E token_resp \in ClientTokenResponses :
          LET got == _get_token(None, token_resp)
          IN  /\ wire' = wire \o got.events
              /\ callers' = [callers EXCEPT ![t] =
                    [@ EXCEPT !.pc = IF got.error = "" THEN "cache_token" ELSE "raised",
                              !.token = got.token,
                              !.requests = @ + 1,
                              !.error = got.error]]
    /\ UNCHANGED <<inputs, pc, extraction, error, payloads, client, sent,
                   run_return, output>>

\* _get_token, `self._token = token; return token`.
cache_token(t) ==
    /\ callers[t].pc = "cache_token"
    /\ client' = [client EXCEPT !.token = callers[t].token]
    /\ callers' = [callers EXCEPT ![t].pc = "post"]
    /\ UNCHANGED <<inputs, pc, extraction, error, payloads, sent, wire,
                   run_return, output>>

\* send_evidence after _get_token returned `token`: the POST and its checks.
post_evidence(t) ==
    /\ callers[t].pc = "post"
    /\ \E resp \in EvidenceResponses \cup ClientEvidenceResponses :
          LET out == post_evidence_with(callers[t].token, payloads[t], resp)
          IN  /\ wire' = wire \o out.events
              /\ sent' = IF out.error = "" THEN sent + 1 ELSE sent
              /\ callers' = [callers EXCEPT ![t] =
                    [@ EXCEPT !.pc = IF out.error = "" THEN "returned" ELSE "raised",
                              !.error = out.error,
                              !.answer = resp,
                              !.value = out.value]]
    /\ UNCHANGED <<inputs, pc, extraction, error, payloads, client,
                   run_return, output>>

NextConcurrent ==
    \E t \in 1..MaxCallers :
        \/ check_token(t)
        \/ request_token(t)
        \/ cache_token(t)
        \/ post_evidence(t)

SpecConcurrent == InitConcurrent /\ [][NextConcurrent]_vars

\* The token a token answer grants, None when it grants none.
Granted(resp) ==
    IF /\ ~resp.failed
       /\ resp.status < 400
       /\ Decodes(resp.body)
       /\ Tag(json_loads(resp.body).value) = "dict"
       /\ Truthy(Get(json_loads(resp.body).value, "access_token"))
    THEN Get(json_loads(resp.body).value, "access_token")
    ELSE None

\* The tokens granted by the token requests among the first n log entries.
GrantedBefore(n) ==
    { Granted(wire[j].resp) :
        j \in { i \in 1..n : IsTokenRequest(wire[i]) /\ Granted(wire[i].resp) # None } }

\* C18: with concurrent send_evidence calls on a client without a cached
\* token, every POST carries a token that an earlier token request of the
\* client was granted, the cached token is one of the granted tokens (or
\* still absent), and each call makes at most one token request.
C18_ConcurrentFirstUseIsSafe ==
    entry = "concurrent" =>
        /\ \A j \in DOMAIN wire :
              IsPost(wire[j]) => wire[j].bearer \in GrantedBefore(j - 1)
        /\ client.token = None \/ client.token \in GrantedBefore(Len(wire))
        /\ \A t \in DOMAIN callers : callers[t].requests <= 1
        /\ Len(TokenRequests) <= MaxCallers
        /\ Len(Posts) <= MaxCallers

C18_Witness ==
    /\ entry = "concurrent"
    /\ Len(TokenRequests) = 2
    /\ Len(Posts) = 2
    /\ Posts[1].bearer # Posts[2].bearer
    /\ callers[1].pc = "returned"
    /\ callers[2].pc = "returned"
    /\ client.token = Posts[1].bearer

\* The send_evidence calls that had a token and got an answer with a status
\* from the evidence endpoint.
Answered(t) ==
    /\ callers[t].pc \in {"returned", "raised"}
    /\ callers[t].answer # NoExchange
    /\ ~callers[t].answer.failed

EmptyCitationAndGaps ==
    /\ entry = "prune"
    /\ Tag(unpruned) = "dict"
    /\ {"citation", "gaps"} \subseteq DOMAIN Val(unpruned)
    /\ Get(unpruned, "citation") = JStr(<<>>)
    /\ Get(unpruned, "gaps") = JList(<<>>)

\* C20: pruning a body that has an empty citation (the empty string) and an
\* empty gaps list gives a body with neither key, and no key of the
\* resource object of a built payload has the empty string as its value.
C20_EmptyStringsPruned ==
    \A k \in DOMAIN payloads :
        /\ EmptyCitationAndGaps =>
               {"citation", "gaps"} \cap DOMAIN Val(payloads[k]) = {}
        /\ PayloadsBuilt =>
               \A key \in DOMAIN Val(ResourceObject(payloads[k])) :
                   Get(ResourceObject(payloads[k]), key) # JStr(<<>>)

\* The reply is valid JSON but no object.
NonObject(raw) == Decodes(raw) /\ Tag(json_loads(raw).value) # "dict"

\* C21: a reply that is valid JSON but not an object never aborts the run:
\* no AttributeError leaves it; in requirement mode the requirement gets an
\* item with fulfilled = false, as for a reply that does not decode; in
\* general mode nothing is published and the run returns a count of 0.
C21_NoReplyShapeAborts ==
    \A k \in DOMAIN llm_calls :
        NonObject(ReplyAt(k)) =>
            /\ error # "AttributeError"
            /\ requirements # <<>> =>
                   /\ k \in DOMAIN evidence_items
                   /\ evidence_items[k] = evidence_item(requirements[k], JDict(<<>>))
                   /\ Get(evidence_items[k], "fulfilled") = JBool(FALSE)
            /\ requirements = <<>> =>
                   /\ payloads = <<>> /\ wire = <<>>
                   /\ pc = "returned" => run_return[1].pushed = 0

\* C22: in requirement mode every built payload carries, in its resource
\* object, the key named by its item's responseField, and the value there is
\* the item's boolean `fulfilled`, false as well as true: pruning neither
\* removes nor alters the verdict.
C22_NegativeVerdictSurvivesPruning ==
    (PayloadsBuilt /\ requirements # <<>>) =>
        /\ Len(payloads) = Len(evidence_items)
        /\ \A k \in DOMAIN payloads :
               LET item == ItemOf(k)
                   key == Val(Get(item, "responseField"))[1]
                   object == ResourceObject(payloads[k])
               IN  /\ item = evidence_items[k]
                   /\ key = field_name(requirements[k])
                   /\ Get(item, "fulfilled") \in {JBool(FALSE), JBool(TRUE)}
                   /\ key \in DOMAIN Val(object)
                   /\ Val(object)[key] = Get(item, "fulfilled")

\* Payloads were built from a negative and a positive verdict, and each kept
\* its own.
C22_Witness ==
    /\ PayloadsBuilt /\ requirements # <<>>
    /\ \E j, k \in DOMAIN payloads :
           /\ Get(ItemOf(j), "fulfilled") = JBool(FALSE)
           /\ Get(ResourceObject(payloads[j]),
                  Val(Get(ItemOf(j), "responseField"))[1]) = JBool(FALSE)
           /\ Get(ItemOf(k), "fulfilled") = JBool(TRUE)
           /\ Get(ResourceObject(payloads[k]),
                  Val(Get(ItemOf(k), "responseField"))[1]) = JBool(TRUE)

====
